---- MODULE Spec2Model ----
(***************************************************************************)
(* cartographer.roadmapper.parse: the PosRecorder log parser               *)
(* (parse_stream), the route interpreter and cleaner (bake) and the        *)
(* command-line driver (main).                                             *)
(***************************************************************************)
EXTENDS Integers, Sequences, FiniteSets, TLC

VARIABLES
    pc,            \* control location of main / parse_stream / bake
    recfiles,      \* main's input files (exists, lines, decode_at)
    recfile,       \* index of the file main's loop is at
    lnum,          \* parse_stream: number of the last line read
    found_err,     \* parse_stream: found_err
    all_recs,      \* main: all_recs, the records handed to bake
    err,           \* main: err
    feed,          \* TRUE when bake is called directly on a caller's list
    ridx,          \* bake: index of the next record of the for loop
    saved_routes,  \* bake: the seed database
    saveto,        \* bake: whether an output path was given
    bounds,        \* bake: bounds
    continent,     \* bake: continent
    route,         \* bake: route
    segment,       \* bake: segment (the open segment)
    all_routes,    \* bake: all_routes
    clean_routes,  \* bake: clean_routes
    backup,        \* whether make_backup has run
    saved,         \* what save_to_yaml has written, if anything
    out,           \* the message printed by the last step
    exc            \* the exception that ended the run, if any

vars == <<pc, recfiles, recfile, lnum, found_err, all_recs, err, feed, ridx,
          saved_routes, saveto, bounds, continent, route, segment, all_routes,
          clean_routes, backup, saved, out, exc>>

parse_vars == <<recfiles, recfile, lnum, found_err, all_recs, err>>
bake_vars == <<bounds, continent, route, segment, all_routes>>
io_vars == <<clean_routes, backup, saved>>

-----------------------------------------------------------------------------
(* Bounds of the model *)

\* longest body of free lines of a single input file
MaxBody == 2
\* most records a direct caller of bake passes
MaxRecs == 5

-----------------------------------------------------------------------------
(* Values *)

\* A Python str: its casefolded text and the positions written in upper case.
Str(f, c) == [fold |-> f, caps |-> c]
Lit(f) == Str(f, {})
\* str.casefold()
casefold(s) == [s EXCEPT !.caps = {}]

\* None and a present value
None == <<>>
Some(v) == <<v>>

\* dict helpers: a dict is a function; d[k] = v
DictSet(d, k, v) == [x \in (DOMAIN d) \cup {k} |-> IF x = k THEN v ELSE d[x]]
EmptyDict == <<>>

\* IGNORED_COMMANDS
IGNORED_COMMANDS == {Lit("start"), Lit("stop"), Lit("width"), Lit("pos")}

\* sl_maptools.knowns.KNOWN_AREAS: canonical continent name -> bounding box
Conti1 == Str("conti1", {1})
Conti2 == Str("conti2", {1})
KNOWN_AREAS ==
    (Conti1 :> [x |-> 10, y |-> 10, width |-> 4, height |-> 4]) @@
    (Conti2 :> [x |-> 11, y |-> 11, width |-> 2, height |-> 1])

\* cartographer.roadmapper.colors.ALL_COLORS: color name -> color
ALL_COLORS == (Lit("red") :> "#ff0000") @@ (Lit("blue") :> "#0000ff")

\* the side of a region tile
TileSize == 256

\* DrawMode and Segment(mode, color=None)
SOLID == "SOLID"
DASHED == "DASHED"
Segment(mode, color) == [mode |-> mode, color |-> color, canvas_points |-> <<>>]

\* Point(x, y); src is history only: the source of the record it came from.
\* Points compare on (x, y).
Point(x, y, src) == [x |-> x, y |-> y, src |-> src]
XY(p) == <<p.x, p.y>>

\* Segment.add(point)
SegmentAdd(seg, p) == [seg EXCEPT !.canvas_points = Append(@, p)]

\* Command(command, value, source) and its default source
\* (None, -1); a file is named by its index in recfiles, None is 0
NoSource == <<0, -1>>
Command(command, value, source) ==
    [type |-> "Command", command |-> command, value |-> value, source |-> source]

\* roundf: round(float(num)), Python's round-half-to-even.  A number of the
\* log is given in halves (5 is "2.5").
roundf(h) ==
    LET q == h \div 2
    IN IF h % 2 = 0 THEN q ELSE IF q % 2 = 0 THEN q ELSE q + 1

\* One field of a position entry: a vector "<x, y, z>" (in halves), a vector
\* whose numbers float() rejects ("<1.2.3, 0, 0>"), or any other text.
Vec(x, y, z) == [f |-> "vec", v |-> <<x, y, z>>]
BadNum == [f |-> "badnum"]
Text(s) == [f |-> "text", s |-> s]
\* RE_VECTOR.match(field) is not None
RE_VECTOR(field) == field.f \in {"vec", "badnum"}

\* PosRecord.__init__: the record, or the ValueError it raises
PosRecord(regn, parn, regc, locp, source) ==
    IF ~RE_VECTOR(regc) THEN [ok |-> FALSE, error |-> "Can't parse region_corner"]
    ELSE IF regc.f = "badnum" THEN [ok |-> FALSE, error |-> "could not convert string to float"]
    ELSE IF ~RE_VECTOR(locp) THEN [ok |-> FALSE, error |-> "Can't parse local_pos"]
    ELSE IF locp.f = "badnum" THEN [ok |-> FALSE, error |-> "could not convert string to float"]
    ELSE [ok |-> TRUE,
          rec |-> [type |-> "PosRecord", region |-> regn, parcel |-> parn,
                   reg_corner |-> <<roundf(regc.v[1]), roundf(regc.v[2]), roundf(regc.v[3])>>,
                   local_pos |-> <<roundf(locp.v[1]), roundf(locp.v[2]), roundf(locp.v[3])>>,
                   source |-> source]]

-----------------------------------------------------------------------------
(* Log lines.  A line is given by what the patterns of parse_stream see in  *)
(* it: no PosRecorder entry, a comment entry, an entry of fields in one of   *)
(* the three position formats (the fields as str.split returns them), a      *)
(* "key: value" entry, or any other entry.                                   *)

Noise == [kind |-> "noise"]
Comment == [kind |-> "comment"]
Legacy(fields) == [kind |-> "legacy", fields |-> fields]
DStar(fields) == [kind |-> "dstar", fields |-> fields]
Star(fields) == [kind |-> "star", fields |-> fields]
KV(key, value) == [kind |-> "kv", key |-> key, value |-> value]
Bare(text) == [kind |-> "bare", text |-> text]

\* the items of a position entry: cmdline.split(";;")[1:], split("**"), split("*")
Items(ln) == IF ln.kind = "legacy" THEN Tail(ln.fields) ELSE ln.fields

\* What parse_stream does with one line: nothing, append a record, report a
\* syntax error, or let PosRecord's ValueError through.
Classify(ln, src) ==
    IF ln.kind \in {"noise", "comment"} THEN [act |-> "skip"]
    ELSE IF ln.kind \in {"legacy", "dstar", "star"} THEN
        LET items == Items(ln)
            made == IF Len(items) = 3
                    THEN PosRecord(items[1], None, items[2], items[3], src)
                    ELSE PosRecord(items[1], Some(items[2]), items[3], items[4], src)
        IN IF Len(items) \notin {3, 4} THEN [act |-> "syntax"]
           ELSE IF made.ok THEN [act |-> "append", rec |-> made.rec]
           ELSE [act |-> "raise", error |-> made.error]
    ELSE IF ln.kind = "kv" THEN [act |-> "append", rec |-> Command(ln.key, ln.value, src)]
    ELSE [act |-> "append", rec |-> Command(casefold(ln.text), Lit(""), src)]

-----------------------------------------------------------------------------
(* Inputs: the log lines, files, records and seed databases of the runs     *)

\* all sequences over S of length at most n
SeqsUpTo(S, n) == UNION {[1..k -> S] : k \in 0..n}

R1 == Str("r1", {1})
Region == Text("Region")
Parcel == Text("Parcel")

\* vectors, in halves
rcA == Vec(5632, 5632, 0)     \* <2816, 2816, 0>, tile (11, 11)
lpA == Vec(200, 100, 0)       \* <100, 50, 0>
rcB == Vec(5120, 6656, 0)     \* <2560, 3328, 0>, tile (10, 13)
lpB == Vec(1, 510, 40)        \* <0.5, 255, 20>
rcC == Vec(6656, 5121, 0)     \* <3328, 2560.5, 0>, tile (13, 10)
lpC == Vec(510, 5, 0)         \* <255, 2.5, 0>
rcOut == Vec(-2, 5632, 0)     \* <-1, 2816, 0>, tile (-1, 11)
lpD == Vec(20, 0, 0)          \* <10, 0, 0>

\* position lines in the three formats, with and without a parcel
PosA == DStar(<<Region, rcA, lpA>>)
PosB == Legacy(<<Text("3"), Region, Parcel, rcB, lpB>>)
PosC == Star(<<Region, rcC, lpC>>)
PosOut == DStar(<<Region, rcOut, lpA>>)
\* a position on the south edge of the southmost tiles of Conti1
PosD == Star(<<Region, rcC, lpD>>)
\* position lines with a structural error
Arity2 == DStar(<<Region, rcA>>)
Arity5 == Star(<<Region, Parcel, rcA, lpA, Text("x")>>)
BadCorner == DStar(<<Region, Text("2816, 2816, 0"), lpA>>)
BadLocal == Legacy(<<Text("3"), Region, rcA, BadNum>>)

\* command lines
LContinent1 == KV(Lit("continent"), Conti1)
LContinent2 == KV(Lit("continent"), Lit("conti2"))
LNowhere == KV(Lit("continent"), Str("nowhere", {1}))
LRoute1 == KV(Lit("route"), R1)
LRouteEmpty == KV(Lit("route"), Lit(""))
LRouteCaps == KV(Str("route", {1}), R1)
LRed == KV(Lit("color"), Lit("red"))
LNoColor == KV(Lit("color"), Lit("nosuch"))
LSolid == Bare(Lit("solid"))
LDashed == Bare(Lit("dashed"))
LDashedCaps == Bare(Str("dashed", 1..6))
LEndroute == Bare(Lit("endroute"))
LBreak == Bare(Lit("break"))
LBreakKV == KV(Lit("break"), Lit(""))
LStart == Bare(Lit("start"))

\* an input file of main
File(lines) == [exists |-> TRUE, lines |-> lines, decode_at |-> 0]
Missing == [exists |-> FALSE, lines |-> <<>>, decode_at |-> 0]
Undecodable(lines, at) == [exists |-> TRUE, lines |-> lines, decode_at |-> at]

Header == <<LContinent1, LRoute1>>

\* single files: with or without the header, then any lines
BodyLines == {Noise, Comment, LRouteCaps, LDashedCaps, LEndroute, LBreakKV,
              PosA, PosB, PosOut, Arity2, BadCorner, LNowhere}
SingleFiles == {File(h \o b) : h \in {<<>>, Header}, b \in SeqsUpTo(BodyLines, MaxBody)}

\* pairs of files
FirstFiles ==
    {File(Header \o <<PosA, PosB>> \o t) : t \in {<<>>, <<LEndroute>>, <<LDashed>>}}
    \cup {File(<<Arity5>>), File(Header \o <<PosA, BadLocal, PosB>>), Missing,
          Undecodable(Header \o <<PosA, PosB>>, 3)}
SecondFiles ==
    {File(h \o <<PosA, PosC>>) :
        h \in {<<>>, <<LRoute1>>, <<LBreak>>, <<LRed>>, <<LSolid>>, Header,
                <<LContinent2, LRoute1>>, <<LRed, LDashed>>, <<LRed, LBreak>>}}
    \cup {File(<<Arity2, PosA>>), File(<<BadCorner>>), Missing,
          Undecodable(<<PosA>>, 1), File(<<LNowhere>>), File(<<PosOut>>),
          File(<<LRouteEmpty, PosA, PosC, LBreak>>), File(<<PosD, PosA>>),
          File(<<LBreak, PosA, PosC, LEndroute, PosA>>)}

\* the mode-toggling log, with any position lines of Conti1
ModeFiles ==
    {File(<<LContinent1, LRoute1, a, LDashed, b, LSolid, c, LEndroute>>) :
        a \in {PosA, PosB, PosC}, b \in {PosA, PosB, PosC}, c \in {PosA, PosB, PosC}}

MainInputs ==
    {<<f>> : f \in SingleFiles \cup ModeFiles}
    \cup {<<f, g>> : f \in FirstFiles, g \in SecondFiles}

\* the record a caller of bake builds from a line
RecOf(ln) == Classify(ln, NoSource).rec
FeedRecords ==
    {RecOf(ln) : ln \in {LContinent1, LContinent2, LNowhere, LRoute1, LRouteEmpty,
                         LRouteCaps, LRed, LNoColor, LSolid, LDashed, LEndroute,
                         LBreak, LStart, PosA, PosB, PosOut}}

\* seed databases
SeedPoint(x, y) == Point(x, y, <<0, 0>>)
SeedSeg(mode, color, points) == [mode |-> mode, color |-> color, canvas_points |-> points]
P1 == SeedPoint(356, 718)
P2 == SeedPoint(5, 5)
P3 == SeedPoint(7, 9)
Seed1 ==
    Some(Conti1) :> (Some(R1) :> <<SeedSeg(SOLID, Some("#ff0000"), <<P1, P2, P1>>),
                                   SeedSeg(DASHED, None, <<P2, P2>>),
                                   SeedSeg(SOLID, None, <<P3, P2>>)>>)
Seed2 ==
    (Some(Conti1) :> ((Some(R1) :> <<SeedSeg(DASHED, None, <<P2, P3>>)>>)
                      @@ (Some(Lit("")) :> <<>>)))
    @@ (Some(Conti2) :> EmptyDict)
E1 == SeedPoint(1, 1)
E2 == SeedPoint(2, 2)
E3 == SeedPoint(3, 3)
Seed3 ==
    Some(Conti2) :> (Some(R1) :> <<SeedSeg(SOLID, None, <<E1, E2, E1, E3>>),
                                   SeedSeg(SOLID, None, <<P2, P2>>)>>)
Seeds == {EmptyDict, Seed1, Seed2, Seed3}

-----------------------------------------------------------------------------
(* main and parse_stream *)

CurFile == recfiles[recfile]
NextLnum == IF lnum = -1 THEN 1 ELSE lnum + 1

\* main, the head of the loop over recfiles: a missing file ends the run,
\* any other file is opened and handed to parse_stream.
main_open ==
    /\ pc = "main"
    /\ recfile <= Len(recfiles)
    /\ IF ~CurFile.exists
       THEN /\ pc' = "exit"
            /\ out' = "not found"
            /\ UNCHANGED <<lnum, found_err>>
       ELSE /\ pc' = "parse"
            /\ out' = "Parsing"
            /\ lnum' = -1
            /\ found_err' = FALSE
    /\ UNCHANGED <<recfiles, recfile, all_recs, err, feed, ridx, saved_routes,
                   saveto, bake_vars, io_vars, exc>>

\* parse_stream, one turn of the loop over the lines of the stream
parse_line ==
    /\ pc = "parse"
    /\ NextLnum <= Len(CurFile.lines)
    /\ NextLnum # CurFile.decode_at
    /\ lnum' = NextLnum
    /\ LET c == Classify(CurFile.lines[NextLnum], <<recfile, NextLnum>>)
       IN CASE c.act = "skip" ->
                 /\ out' = ""
                 /\ UNCHANGED <<pc, all_recs, found_err, exc>>
            [] c.act = "append" ->
                 /\ all_recs' = Append(all_recs, c.rec)
                 /\ out' = ""
                 /\ UNCHANGED <<pc, found_err, exc>>
            [] c.act = "syntax" ->
                 /\ found_err' = TRUE
                 /\ out' = "ERROR: Unrecognized syntax"
                 /\ UNCHANGED <<pc, all_recs, exc>>
            [] c.act = "raise" ->
                 /\ pc' = "raised"
                 /\ exc' = "ValueError"
                 /\ out' = c.error
                 /\ UNCHANGED <<all_recs, found_err>>
    /\ UNCHANGED <<recfiles, recfile, err, feed, ridx, saved_routes, saveto,
                   bake_vars, io_vars>>

\* parse_stream: reading the next line fails to decode
parse_decode_error ==
    /\ pc = "parse"
    /\ NextLnum <= Len(CurFile.lines)
    /\ NextLnum = CurFile.decode_at
    /\ pc' = "raised"
    /\ exc' = "UnicodeDecodeError"
    /\ out' = "UnicodeDecodeError"
    /\ UNCHANGED <<recfiles, recfile, lnum, found_err, all_recs, err, feed, ridx,
                   saved_routes, saveto, bake_vars, io_vars>>

\* parse_stream returns found_err; main folds it into err and goes on
parse_return ==
    /\ pc = "parse"
    /\ NextLnum > Len(CurFile.lines)
    /\ err' = (err \/ found_err)
    /\ recfile' = recfile + 1
    /\ pc' = "main"
    /\ out' = ""
    /\ UNCHANGED <<recfiles, lnum, found_err, all_recs, feed, ridx, saved_routes,
                   saveto, bake_vars, io_vars, exc>>

\* main after the loop: stop on err, else bake(all_recs, {}, output)
\* (main_bake_unchecked: main without its test of err)
main_bake_unchecked ==
    /\ pc = "main"
    /\ recfile > Len(recfiles)
    /\ pc' = "bake_init"
    /\ out' = ""
    /\ UNCHANGED <<parse_vars, feed, ridx, saved_routes, saveto, bake_vars,
                   io_vars, exc>>

main_bake ==
    /\ pc = "main"
    /\ recfile > Len(recfiles)
    /\ IF err
       THEN /\ pc' = "exit"
            /\ out' = "Errors found. Please fix them first!"
       ELSE /\ pc' = "bake_init"
            /\ out' = ""
    /\ UNCHANGED <<parse_vars, feed, ridx, saved_routes, saveto, bake_vars,
                   io_vars, exc>>

-----------------------------------------------------------------------------
(* bake *)

\* casefolded = {k.casefold(): k for k in KNOWN_AREAS.keys()}
casefolded ==
    [k \in {casefold(n) : n \in DOMAIN KNOWN_AREAS} |->
        CHOOSE n \in DOMAIN KNOWN_AREAS : casefold(n) = k]

\* all_routes[c][r].append(seg) on the defaultdict of defaultdicts of lists
\* (RoutesPrepend: the same with insert(0, seg))
RoutesPrepend(db, c, r, seg) ==
    LET routes == IF c \in DOMAIN db THEN db[c] ELSE EmptyDict
        segs == IF r \in DOMAIN routes THEN routes[r] ELSE <<>>
    IN DictSet(db, c, DictSet(routes, r, <<seg>> \o segs))

RoutesAppend(db, c, r, seg) ==
    LET routes == IF c \in DOMAIN db THEN db[c] ELSE EmptyDict
        segs == IF r \in DOMAIN routes THEN routes[r] ELSE <<>>
    IN DictSet(db, c, DictSet(routes, r, Append(segs, seg)))

\* all_routes after the seeding loop: all_routes[conti][route].extend(segments)
Seeded(seed) ==
    [c \in {k \in DOMAIN seed : DOMAIN seed[k] # {}} |->
        [r \in DOMAIN seed[c] |-> seed[c][r]]]

\* the values the seeding loop can leave in `route`, its loop variable: the
\* last route of the last continent that has one, whatever the dict's order
SeedLoopRoutes(seed) ==
    IF \A c \in DOMAIN seed : DOMAIN seed[c] = {}
    THEN {None}
    ELSE UNION {DOMAIN seed[c] : c \in DOMAIN seed}

\* bake up to the loop over recs
bake_init ==
    /\ pc = "bake_init"
    /\ bounds' = None
    /\ continent' = None
    /\ all_routes' = Seeded(saved_routes)
    /\ route' \in SeedLoopRoutes(saved_routes)
    /\ segment' = Segment(SOLID, None)
    /\ ridx' = 1
    /\ pc' = "bake"
    /\ out' = ""
    /\ UNCHANGED <<parse_vars, feed, saved_routes, saveto, io_vars, exc>>

\* the record the for loop takes next: of all_recs, or any record a direct
\* caller may have put in its list
CurRecs ==
    IF feed
    THEN IF ridx <= MaxRecs THEN FeedRecords ELSE {}
    ELSE IF ridx <= Len(all_recs) THEN {all_recs[ridx]} ELSE {}
\* the for loop may be over
AtEnd == feed \/ ridx > Len(all_recs)

IsCommand(rec, name) == rec.type = "Command" /\ rec.command = Lit(name)
CommandNames == {Lit("continent"), Lit("route"), Lit("color"), Lit("solid"),
                 Lit("dashed"), Lit("endroute"), Lit("break")}

\* what every turn of the loop leaves alone
LoopFrame ==
    UNCHANGED <<parse_vars, feed, saved_routes, saveto, io_vars>>

\* case "continent", conti
\* (OnContinent_Closing: a resolved continent first closes the open segment
\* of an open route)
OnContinent_Closing(rec) ==
    /\ IsCommand(rec, "continent")
    /\ LET k == casefold(rec.value)
       IN IF k \notin DOMAIN casefolded
          THEN /\ continent' = None
               /\ pc' = "raised"
               /\ exc' = "ValueError"
               /\ out' = "Unknown continent"
               /\ UNCHANGED <<bounds, route, segment, all_routes, ridx>>
          ELSE /\ all_routes' = IF route # None
                                THEN RoutesAppend(all_routes, continent, route, segment)
                                ELSE all_routes
               /\ continent' = Some(casefolded[k])
               /\ bounds' = Some(KNOWN_AREAS[casefolded[k]])
               /\ segment' = Segment(SOLID, None)
               /\ route' = None
               /\ out' = "Continent"
               /\ ridx' = ridx + 1
               /\ UNCHANGED <<pc, exc>>
    /\ LoopFrame

OnContinent(rec) ==
    /\ IsCommand(rec, "continent")
    /\ LET k == casefold(rec.value)
       IN IF k \notin DOMAIN casefolded
          THEN /\ continent' = None
               /\ pc' = "raised"
               /\ exc' = "ValueError"
               /\ out' = "Unknown continent"
               /\ UNCHANGED <<bounds, route, segment, all_routes, ridx>>
          ELSE /\ continent' = Some(casefolded[k])
               /\ bounds' = Some(KNOWN_AREAS[casefolded[k]])
               /\ segment' = Segment(SOLID, None)
               /\ route' = None
               /\ out' = "Continent"
               /\ ridx' = ridx + 1
               /\ UNCHANGED <<pc, exc, all_routes>>
    /\ LoopFrame

\* case "route", route_new
\* (OnRoute_NewName: the open segment closed under the name of the new route)
OnRoute_NewName(rec) ==
    /\ IsCommand(rec, "route")
    /\ all_routes' = IF route # None
                     THEN RoutesAppend(all_routes, continent, Some(rec.value), segment)
                     ELSE all_routes
    /\ route' = Some(rec.value)
    /\ segment' = Segment(SOLID, None)
    /\ out' = "begins"
    /\ ridx' = ridx + 1
    /\ UNCHANGED <<pc, exc, bounds, continent>>
    /\ LoopFrame

OnRoute(rec) ==
    /\ IsCommand(rec, "route")
    /\ all_routes' = IF route # None
                     THEN RoutesAppend(all_routes, continent, route, segment)
                     ELSE all_routes
    /\ route' = Some(rec.value)
    /\ segment' = Segment(SOLID, None)
    /\ out' = "begins"
    /\ ridx' = ridx + 1
    /\ UNCHANGED <<pc, exc, bounds, continent>>
    /\ LoopFrame

\* ALL_COLORS.get(color_name)
ColorGet(color_name) ==
    IF color_name \in DOMAIN ALL_COLORS THEN Some(ALL_COLORS[color_name]) ELSE None

\* case "color", color_name
OnColor(rec) ==
    /\ IsCommand(rec, "color")
    /\ out' = IF rec.value \notin DOMAIN ALL_COLORS
              THEN "WARNING: Unknown Color" ELSE ""
    /\ segment' = [segment EXCEPT !.color = ColorGet(rec.value)]
    /\ ridx' = ridx + 1
    /\ UNCHANGED <<pc, exc, bounds, continent, route, all_routes>>
    /\ LoopFrame

\* case "solid", _ and case "dashed", _: the mode asked for and the mode that
\* makes the command close the open segment
\* (Toggle_NoClose: the mode changed on the open segment, nothing closed)
Toggle_NoClose(to, from) ==
    /\ segment' = IF segment.mode = from THEN [segment EXCEPT !.mode = to] ELSE segment
    /\ UNCHANGED all_routes

\* (Toggle_NoColor: the new segment opened without the color of the closed one)
Toggle_NoColor(to, from) ==
    IF segment.mode = from
    THEN /\ all_routes' = RoutesAppend(all_routes, continent, route, segment)
         /\ segment' = Segment(to, None)
    ELSE UNCHANGED <<all_routes, segment>>

Toggle(to, from) ==
    IF segment.mode = from
    THEN /\ all_routes' = RoutesAppend(all_routes, continent, route, segment)
         /\ segment' = Segment(to, segment.color)
    ELSE UNCHANGED <<all_routes, segment>>

OnSolid(rec) ==
    /\ IsCommand(rec, "solid")
    /\ Toggle(SOLID, DASHED)
    /\ ridx' = ridx + 1
    /\ out' = ""
    /\ UNCHANGED <<pc, exc, bounds, continent, route>>
    /\ LoopFrame

OnDashed(rec) ==
    /\ IsCommand(rec, "dashed")
    /\ Toggle(DASHED, SOLID)
    /\ ridx' = ridx + 1
    /\ out' = ""
    /\ UNCHANGED <<pc, exc, bounds, continent, route>>
    /\ LoopFrame

\* case "endroute", _
\* (OnEndroute_KeepRoute: the same without route = None)
OnEndroute_KeepRoute(rec) ==
    /\ IsCommand(rec, "endroute")
    /\ all_routes' = RoutesAppend(all_routes, continent, route, segment)
    /\ segment' = Segment(SOLID, None)
    /\ ridx' = ridx + 1
    /\ out' = "ends"
    /\ UNCHANGED <<pc, exc, bounds, continent, route>>
    /\ LoopFrame

OnEndroute(rec) ==
    /\ IsCommand(rec, "endroute")
    /\ all_routes' = RoutesAppend(all_routes, continent, route, segment)
    /\ route' = None
    /\ segment' = Segment(SOLID, None)
    /\ ridx' = ridx + 1
    /\ out' = "ends"
    /\ UNCHANGED <<pc, exc, bounds, continent>>
    /\ LoopFrame

\* case "break", _
OnBreak(rec) ==
    /\ IsCommand(rec, "break")
    /\ all_routes' = RoutesAppend(all_routes, continent, route, segment)
    /\ segment' = Segment(SOLID, None)
    /\ ridx' = ridx + 1
    /\ out' = "Discontinuous break!"
    /\ UNCHANGED <<pc, exc, bounds, continent, route>>
    /\ LoopFrame

\* case cmd, _
OnOther(rec) ==
    /\ rec.type = "Command"
    /\ rec.command \notin CommandNames
    /\ out' = IF rec.command \notin IGNORED_COMMANDS
              THEN "WARNING: Unrecognized command" ELSE ""
    /\ ridx' = ridx + 1
    /\ UNCHANGED <<pc, exc, bake_vars>>
    /\ LoopFrame

\* MapCoord(rec.reg_corner[0] // 256, rec.reg_corner[1] // 256)
TileOf(reg_corner) == <<reg_corner[1] \div TileSize, reg_corner[2] \div TileSize>>

\* coord in bounds: the tile lies in the box, its edges included
InBounds(coord, b) ==
    /\ b.x <= coord[1] /\ coord[1] <= b.x + b.width - 1
    /\ b.y <= coord[2] /\ coord[2] <= b.y + b.height - 1

\* the canvas point of a position record in the box b
\* (CanvasPoint_NoFlip: the same without the inversion of the y axis)
CanvasPoint_NoFlip(rec, b) ==
    LET coord == TileOf(rec.reg_corner)
        offset_tiles == <<coord[1] - b.x, coord[2] - b.y>>
        offset_pixels == <<offset_tiles[1] * TileSize, offset_tiles[2] * TileSize>>
    IN Point(offset_pixels[1] + rec.local_pos[1],
             offset_pixels[2] + rec.local_pos[2], rec.source)

CanvasPoint(rec, b) ==
    LET coord == TileOf(rec.reg_corner)
        offset_tiles == <<coord[1] - b.x, coord[2] - b.y>>
        offset_pixels == <<offset_tiles[1] * TileSize, offset_tiles[2] * TileSize>>
        canv_x == offset_pixels[1] + rec.local_pos[1]
        canv_y == (b.height * TileSize) - offset_pixels[2] - rec.local_pos[2]
    IN Point(canv_x, canv_y, rec.source)

\* elif isinstance(rec, PosRecord)
\* (OnPos_NoRouteCheck: the same without the test of route)
OnPos_NoRouteCheck(rec) ==
    /\ rec.type = "PosRecord"
    /\ IF continent = None
       THEN /\ out' = "WARNING: PosRecord found but continent not set"
            /\ ridx' = ridx + 1
            /\ UNCHANGED <<pc, exc, segment>>
       ELSE IF ~InBounds(TileOf(rec.reg_corner), bounds[1])
       THEN /\ pc' = "raised"
            /\ exc' = "ValueError"
            /\ out' = "Region outside of continent"
            /\ UNCHANGED <<ridx, segment>>
       ELSE /\ segment' = SegmentAdd(segment, CanvasPoint(rec, bounds[1]))
            /\ out' = ""
            /\ ridx' = ridx + 1
            /\ UNCHANGED <<pc, exc>>
    /\ UNCHANGED <<bounds, continent, route, all_routes>>
    /\ LoopFrame

OnPos(rec) ==
    /\ rec.type = "PosRecord"
    /\ IF continent = None
       THEN /\ out' = "WARNING: PosRecord found but continent not set"
            /\ ridx' = ridx + 1
            /\ UNCHANGED <<pc, exc, segment>>
       ELSE IF route = None
       THEN /\ out' = "WARNING: PosRecord found but route not set"
            /\ ridx' = ridx + 1
            /\ UNCHANGED <<pc, exc, segment>>
       ELSE IF ~InBounds(TileOf(rec.reg_corner), bounds[1])
       THEN /\ pc' = "raised"
            /\ exc' = "ValueError"
            /\ out' = "Region outside of continent"
            /\ UNCHANGED <<ridx, segment>>
       ELSE /\ segment' = SegmentAdd(segment, CanvasPoint(rec, bounds[1]))
            /\ out' = ""
            /\ ridx' = ridx + 1
            /\ UNCHANGED <<pc, exc>>
    /\ UNCHANGED <<bounds, continent, route, all_routes>>
    /\ LoopFrame

\* one turn of the for loop, by the case it takes
bake_continent == pc = "bake" /\ \E rec \in CurRecs : OnContinent(rec)
bake_route == pc = "bake" /\ \E rec \in CurRecs : OnRoute(rec)
bake_color == pc = "bake" /\ \E rec \in CurRecs : OnColor(rec)
bake_solid == pc = "bake" /\ \E rec \in CurRecs : OnSolid(rec)
bake_dashed == pc = "bake" /\ \E rec \in CurRecs : OnDashed(rec)
bake_endroute == pc = "bake" /\ \E rec \in CurRecs : OnEndroute(rec)
bake_break == pc = "bake" /\ \E rec \in CurRecs : OnBreak(rec)
bake_other == pc = "bake" /\ \E rec \in CurRecs : OnOther(rec)
bake_pos == pc = "bake" /\ \E rec \in CurRecs : OnPos(rec)

\* the turn of the loop on rec, whatever its case
OnRecord(rec) ==
    \/ OnContinent(rec) \/ OnRoute(rec) \/ OnColor(rec) \/ OnSolid(rec)
    \/ OnDashed(rec) \/ OnEndroute(rec) \/ OnBreak(rec) \/ OnOther(rec) \/ OnPos(rec)

\* after the loop: if route: all_routes[continent][route].append(segment)
bake_end ==
    /\ pc = "bake"
    /\ AtEnd
    /\ all_routes' = IF route # None /\ route[1] # Lit("")
                     THEN RoutesAppend(all_routes, continent, route, segment)
                     ELSE all_routes
    /\ pc' = "clean"
    /\ out' = ""
    /\ UNCHANGED <<parse_vars, feed, ridx, saved_routes, saveto, bounds, continent,
                   route, segment, io_vars, exc>>

\* the points of a segment without the repeats of an earlier point
\* (UniqsAdjacent: only a repeat of the point just before is dropped)
RECURSIVE UniqsAdjacent(_)
UniqsAdjacent(ps) ==
    IF ps = <<>> THEN <<>>
    ELSE LET before == UniqsAdjacent(SubSeq(ps, 1, Len(ps) - 1))
             p == ps[Len(ps)]
         IN IF before # <<>> /\ XY(before[Len(before)]) = XY(p)
            THEN before ELSE Append(before, p)

RECURSIVE Uniqs(_)
Uniqs(ps) ==
    IF ps = <<>> THEN <<>>
    ELSE LET before == Uniqs(SubSeq(ps, 1, Len(ps) - 1))
             p == ps[Len(ps)]
         IN IF \E i \in 1..Len(before) : XY(before[i]) = XY(p)
            THEN before ELSE Append(before, p)

\* new_segs of one route
\* (NewSegs_RawLen: the length tested is that of the points before the filter)
RECURSIVE NewSegs_RawLen(_)
NewSegs_RawLen(segments) ==
    IF segments = <<>> THEN <<>>
    ELSE LET seg == Head(segments)
             uniqs == Uniqs(seg.canvas_points)
         IN IF Len(seg.canvas_points) < 2
            THEN NewSegs_RawLen(Tail(segments))
            ELSE <<[seg EXCEPT !.canvas_points = uniqs]>> \o NewSegs_RawLen(Tail(segments))

RECURSIVE NewSegs(_)
NewSegs(segments) ==
    IF segments = <<>> THEN <<>>
    ELSE LET seg == Head(segments)
             uniqs == Uniqs(seg.canvas_points)
         IN IF Len(uniqs) < 2
            THEN NewSegs(Tail(segments))
            ELSE <<[seg EXCEPT !.canvas_points = uniqs]>> \o NewSegs(Tail(segments))

\* clean_routes of all_routes
Clean(db) ==
    LET kept(c) == {r \in DOMAIN db[c] : NewSegs(db[c][r]) # <<>>}
    IN [c \in {k \in DOMAIN db : kept(k) # {}} |->
           [r \in kept(c) |-> NewSegs(db[c][r])]]

\* the segments of all_routes after the cleaning loop, which stores uniqs in
\* the segments it keeps
Cleaned(db) ==
    [c \in DOMAIN db |-> [r \in DOMAIN db[c] |->
        [i \in 1..Len(db[c][r]) |->
            LET seg == db[c][r][i]
                uniqs == Uniqs(seg.canvas_points)
            IN IF Len(uniqs) < 2 THEN seg ELSE [seg EXCEPT !.canvas_points = uniqs]]]]

\* the cleaning loop
bake_clean ==
    /\ pc = "clean"
    /\ clean_routes' = Clean(all_routes)
    /\ all_routes' = Cleaned(all_routes)
    /\ pc' = "save"
    /\ out' = ""
    /\ UNCHANGED <<parse_vars, feed, ridx, saved_routes, saveto, bounds, continent,
                   route, segment, backup, saved, exc>>

\* if saveto: make_backup, save_to_yaml; return clean_routes
bake_save ==
    /\ pc = "save"
    /\ IF saveto
       THEN /\ backup' = TRUE
            /\ saved' = Some(clean_routes)
       ELSE UNCHANGED <<backup, saved>>
    /\ pc' = "done"
    /\ out' = ""
    /\ UNCHANGED <<parse_vars, feed, ridx, saved_routes, saveto, bake_vars,
                   clean_routes, exc>>

-----------------------------------------------------------------------------
(* Specifications *)

\* before bake runs its locals hold nothing
NoBake ==
    /\ ridx = 1
    /\ bounds = None
    /\ continent = None
    /\ route = None
    /\ segment = Segment(SOLID, None)
    /\ all_routes = EmptyDict
    /\ clean_routes = EmptyDict
    /\ backup = FALSE
    /\ saved = None
    /\ out = ""
    /\ exc = ""

\* main(output, recfiles)
Init ==
    /\ pc = "main"
    /\ recfiles \in MainInputs
    /\ recfile = 1
    /\ lnum = -1
    /\ found_err = FALSE
    /\ all_recs = <<>>
    /\ err = FALSE
    /\ feed = FALSE
    /\ saved_routes = EmptyDict
    /\ saveto = TRUE
    /\ NoBake

\* bake(recs, saved_routes, saveto) called on its own
InitBake ==
    /\ pc = "bake_init"
    /\ recfiles = <<>>
    /\ recfile = 1
    /\ lnum = -1
    /\ found_err = FALSE
    /\ all_recs = <<>>
    /\ err = FALSE
    /\ feed = TRUE
    /\ saved_routes \in Seeds
    /\ saveto \in BOOLEAN
    /\ NoBake

NextBake ==
    \/ bake_init
    \/ bake_continent
    \/ bake_route
    \/ bake_color
    \/ bake_solid
    \/ bake_dashed
    \/ bake_endroute
    \/ bake_break
    \/ bake_other
    \/ bake_pos
    \/ bake_end
    \/ bake_clean
    \/ bake_save

Next ==
    \/ main_open
    \/ parse_line
    \/ parse_decode_error
    \/ parse_return
    \/ main_bake
    \/ NextBake

Spec == Init /\ [][Next]_vars
SpecBake == InitBake /\ [][NextBake]_vars

-----------------------------------------------------------------------------
(* Properties *)

Last(seq) == seq[Len(seq)]
PosKinds == {"legacy", "dstar", "star"}
Finished == {"clean", "save", "done"}

\* the segments stored for continent c and route r, none if there is no entry
SegsOf(db, c, r) ==
    IF c \in DOMAIN db /\ r \in DOMAIN db[c] THEN db[c][r] ELSE <<>>

\* the (x, y) of the points of a segment
XYs(seg) == [i \in 1..Len(seg.canvas_points) |-> XY(seg.canvas_points[i])]

\* the canvas (x, y) of a position line of Conti1, by the transform of the spec
LineXY(ln) ==
    LET it == Items(ln)
        regc == it[Len(it) - 1].v
        locp == it[Len(it)].v
        b == KNOWN_AREAS[Conti1]
    IN <<(roundf(regc[1]) \div 256 - b.x) * 256 + roundf(locp[1]),
         b.height * 256 - (roundf(regc[2]) \div 256 - b.y) * 256 - roundf(locp[2])>>

\* C1 -------------------------------------------------------------------
ModeRun == recfiles \in {<<f>> : f \in ModeFiles}
ModeSegments ==
    LET ls == recfiles[1].lines
    IN <<[mode |-> SOLID, pts |-> <<LineXY(ls[3])>>],
         [mode |-> DASHED, pts |-> <<LineXY(ls[5])>>],
         [mode |-> SOLID, pts |-> <<LineXY(ls[7])>>]>>
ModeView(segs) == [i \in 1..Len(segs) |-> [mode |-> segs[i].mode, pts |-> XYs(segs[i])]]

\* C1 as stated: after the log `continent Conti1; route R1; A; dashed; B;
\* solid; C; endroute`, with A, B, C single positions inside Conti1, the
\* database bake returns has for route R1 of Conti1 exactly the 3 segments
\* SOLID{A}, DASHED{B}, SOLID{C}, in this order.
C1_ModeToggling_Returned ==
    (ModeRun /\ pc = "done") =>
        ModeView(SegsOf(clean_routes, Some(Conti1), Some(R1))) = ModeSegments

\* C1 amended: after that log the database bake has built before cleaning
\* holds for route R1 of Conti1 exactly the 3 segments SOLID{A}, DASHED{B},
\* SOLID{C}, in this order, and nothing else; each has a single point, so the
\* cleaning drops all three and the database returned and saved is empty.
C1_ModeToggling ==
    (ModeRun /\ pc \in Finished) =>
        /\ DOMAIN all_routes = {Some(Conti1)}
        /\ DOMAIN all_routes[Some(Conti1)] = {Some(R1)}
        /\ ModeView(all_routes[Some(Conti1)][Some(R1)]) = ModeSegments
        /\ pc = "done" => (clean_routes = EmptyDict /\ saved = Some(EmptyDict))

C1_Witness ==
    /\ ModeRun
    /\ pc = "done"
    /\ Len(SegsOf(all_routes, Some(Conti1), Some(R1))) = 3

\* C2 -------------------------------------------------------------------
BadArity(ln) == ln.kind \in PosKinds /\ Len(Items(ln)) \notin {3, 4}
BadVector(ln) ==
    /\ ln.kind \in PosKinds
    /\ Len(Items(ln)) \in {3, 4}
    /\ LET it == Items(ln)
       IN it[Len(it) - 1].f # "vec" \/ it[Len(it)].f # "vec"
StructuralError(ln) == BadArity(ln) \/ BadVector(ln)

\* some input has a structural error, cannot be decoded, or does not exist
BadInput ==
    \E k \in 1..Len(recfiles) :
        \/ ~recfiles[k].exists
        \/ recfiles[k].decode_at \in 1..Len(recfiles[k].lines)
        \/ \E i \in 1..Len(recfiles[k].lines) : StructuralError(recfiles[k].lines[i])

\* main has called bake
BakeStarted ==
    \/ pc \in {"bake_init", "bake", "clean", "save", "done"}
    \/ pc = "raised" /\ recfile > Len(recfiles)

Written == backup \/ saved # None

\* the record bake is at is fatal: an unknown continent, or a position outside
\* the box of the continent while continent and route are set
FatalRecord ==
    /\ pc = "bake"
    /\ ~feed
    /\ ridx <= Len(all_recs)
    /\ LET rec == all_recs[ridx]
       IN \/ /\ rec.type = "Command"
             /\ rec.command = Lit("continent")
             /\ \A n \in DOMAIN KNOWN_AREAS : casefold(n) # casefold(rec.value)
          \/ /\ rec.type = "PosRecord"
             /\ continent # None
             /\ route # None
             /\ LET b == KNOWN_AREAS[continent[1]]
                    tx == rec.reg_corner[1] \div 256
                    ty == rec.reg_corner[2] \div 256
                IN ~(b.x <= tx /\ tx < b.x + b.width /\ b.y <= ty /\ ty < b.y + b.height)

\* C2: in a run of main the write (make_backup, save_to_yaml) never happens
\* when an input has a structural error or a decode error, nor after a fatal
\* error of bake: with a bad input bake is not even started, a fatal record
\* ends the run by an exception, and a run ended by an exception or an exit
\* has written nothing and takes no further step.
C2_NoOutputOnError ==
    /\ [](BadInput => (~BakeStarted /\ ~Written))
    /\ [](pc \in {"raised", "exit"} => ~Written)
    /\ [](Written => (pc = "done" /\ exc = ""))
    /\ [][FatalRecord => (pc' = "raised" /\ ~Written')]_vars
    /\ [][pc \notin {"raised", "exit"}]_vars

C2_Witness ==
    /\ pc = "exit"
    /\ Len(recfiles) = 2
    /\ \E i \in 1..Len(recfiles[2].lines) : BadArity(recfiles[2].lines[i])
    /\ ~Written

\* C3 -------------------------------------------------------------------
\* parse_stream is about to read a line with a structural error
AtStructuralError ==
    /\ pc = "parse"
    /\ NextLnum <= Len(CurFile.lines)
    /\ NextLnum # CurFile.decode_at
    /\ StructuralError(CurFile.lines[NextLnum])

\* C3: on a line with a structural error of either kind (bad arity, bad
\* vector) parse_stream reports the error for that line and goes on with the
\* scan of the stream, and it returns TRUE once it has met such a line.
C3_ScanContinues ==
    /\ [][AtStructuralError =>
            (pc' = "parse" /\ lnum' = NextLnum /\ found_err'
             /\ out' = "ERROR: Unrecognized syntax")]_vars
    /\ [][(pc = "parse" /\ found_err) => (found_err' /\ (pc' = "main" => err'))]_vars

\* C4 -------------------------------------------------------------------
\* the log line a record of all_recs was made from
SourceLine(rec) == recfiles[rec.source[1]].lines[rec.source[2]]
EntryName(ln) == IF ln.kind = "kv" THEN ln.key ELSE ln.text
EntryValue(ln) == IF ln.kind = "kv" THEN ln.value ELSE Lit("")

\* C4: whatever the case of the letters of a command name in the log entry,
\* keyed or bare, the interpreter takes the step it takes for the name
\* written in lower case.
C4_CaseInsensitive ==
    [][(/\ pc = "bake"
        /\ ~feed
        /\ ridx <= Len(all_recs)
        /\ all_recs[ridx].type = "Command"
        /\ casefold(EntryName(SourceLine(all_recs[ridx]))) \in CommandNames)
       => LET ln == SourceLine(all_recs[ridx])
          IN OnRecord(Command(casefold(EntryName(ln)), EntryValue(ln),
                              all_recs[ridx].source))]_vars

\* C5 -------------------------------------------------------------------
\* C5: when the records are over and a route is open, whatever its name (the
\* empty name included), the open segment has been appended under the
\* continent and that route, and its points, if at least 2 are distinct, are
\* in the database returned.  (With no seed, route is set only by a `route`
\* command and unset by `endroute` and `continent`.)
C5_ImplicitEnd ==
    (saved_routes = EmptyDict /\ route # None) =>
        /\ pc = "clean" =>
             /\ SegsOf(all_routes, continent, route) # <<>>
             /\ Last(SegsOf(all_routes, continent, route)) = segment
        /\ (pc = "done" /\ Len(Uniqs(segment.canvas_points)) >= 2) =>
             /\ SegsOf(clean_routes, continent, route) # <<>>
             /\ Last(SegsOf(clean_routes, continent, route)).canvas_points
                    = Uniqs(segment.canvas_points)

\* C6 -------------------------------------------------------------------
NoRepeat(seq) == \A i, j \in 1..Len(seq) : i # j => seq[i] # seq[j]
WellFormed(db) ==
    \A c \in DOMAIN db :
        /\ DOMAIN db[c] # {}
        /\ \A r \in DOMAIN db[c] :
            /\ Len(db[c][r]) >= 1
            /\ \A i \in 1..Len(db[c][r]) :
                /\ Len(db[c][r][i].canvas_points) >= 2
                /\ NoRepeat(XYs(db[c][r][i]))

\* C6: whatever the seed and the records, in the database bake returns and
\* saves every segment has at least 2 points and no point twice, every route
\* has a segment and every continent has a route.
C6_PersistedSegments ==
    /\ WellFormed(clean_routes)
    /\ saved # None => (saved[1] = clean_routes /\ WellFormed(saved[1]))

C6_Witness ==
    /\ pc = "done"
    /\ saved_routes = Seed1
    /\ saved # None
    /\ Len(SegsOf(clean_routes, Some(Conti1), Some(R1))) = 3
    /\ Len(SegsOf(all_routes, Some(Conti1), Some(R1))) > 3

\* C7 -------------------------------------------------------------------
\* C7: a `color` command with a name the color table does not have only
\* warns: continent, route, the database and the open segment (its mode,
\* points and color) are the same after it as before it.
C7_UnknownColorNoOp ==
    [][(pc = "bake" /\ out' = "WARNING: Unknown Color") =>
          UNCHANGED <<bounds, continent, route, segment, all_routes>>]_vars

\* C8 -------------------------------------------------------------------
\* bake is at a position record it accepts: continent and route are set and
\* the tile of the record is in the box of the continent
AtAcceptedPos ==
    /\ pc = "bake"
    /\ ~feed
    /\ ridx <= Len(all_recs)
    /\ all_recs[ridx].type = "PosRecord"
    /\ continent # None
    /\ route # None
    /\ ~FatalRecord

\* C8: the point bake appends for an accepted position record is
\* ((tile.x - origin_x)*256 + local_pos.x,
\*  height*256 - (tile.y - origin_y)*256 - local_pos.y), the tile being
\* reg_corner div 256; in the box origin (10, 10), 4 by 4, reg_corner
\* (2816, 2816, 0) and local_pos (100, 50, 0) give (356, 718).
C8_CoordinateTransform ==
    [][AtAcceptedPos =>
        LET rec == all_recs[ridx]
            b == KNOWN_AREAS[continent[1]]
            tx == rec.reg_corner[1] \div 256
            ty == rec.reg_corner[2] \div 256
            cx == (tx - b.x) * 256 + rec.local_pos[1]
            cy == b.height * 256 - (ty - b.y) * 256 - rec.local_pos[2]
        IN /\ Len(segment'.canvas_points) = Len(segment.canvas_points) + 1
           /\ SubSeq(segment'.canvas_points, 1, Len(segment.canvas_points))
                = segment.canvas_points
           /\ XY(Last(segment'.canvas_points)) = <<cx, cy>>
           /\ (/\ b = [x |-> 10, y |-> 10, width |-> 4, height |-> 4]
               /\ rec.reg_corner = <<2816, 2816, 0>>
               /\ rec.local_pos = <<100, 50, 0>>)
              => XY(Last(segment'.canvas_points)) = <<356, 718>>]_vars

C8_Witness ==
    /\ pc = "bake"
    /\ ~feed
    /\ continent = Some(Conti1)
    /\ ridx > 1
    /\ all_recs[ridx - 1].type = "PosRecord"
    /\ all_recs[ridx - 1].reg_corner = <<2816, 2816, 0>>
    /\ all_recs[ridx - 1].local_pos = <<100, 50, 0>>
    /\ segment.canvas_points # <<>>
    /\ XY(Last(segment.canvas_points)) = <<356, 718>>

\* C9 -------------------------------------------------------------------
IsSeedPoint(p) == p.src = <<0, 0>>

\* C9: for every continent and route of the seed, the seeded segments that
\* survive the cleaning come first in the returned database, in their order,
\* and every segment after them is new: none is replaced or moved.
C9_SeedMergeOrder ==
    pc \in {"save", "done"} =>
        \A c \in DOMAIN saved_routes : \A r \in DOMAIN saved_routes[c] :
            LET old == NewSegs(saved_routes[c][r])
                now == SegsOf(clean_routes, c, r)
            IN /\ Len(now) >= Len(old)
               /\ SubSeq(now, 1, Len(old)) = old
               /\ \A i \in (Len(old) + 1)..Len(now) :
                    \A k \in 1..Len(now[i].canvas_points) :
                        ~IsSeedPoint(now[i].canvas_points[k])

C9_Witness ==
    /\ pc = "done"
    /\ saved_routes = Seed1
    /\ Len(SegsOf(clean_routes, Some(Conti1), Some(R1))) = 3
    /\ IsSeedPoint(clean_routes[Some(Conti1)][Some(R1)][2].canvas_points[1])
    /\ ~IsSeedPoint(clean_routes[Some(Conti1)][Some(R1)][3].canvas_points[1])

\* C10 ------------------------------------------------------------------
\* segment seg has a point recorded in file k
FromFile(seg, k) ==
    \E i \in 1..Len(seg.canvas_points) : seg.canvas_points[i].src[1] = k

\* in no route does a segment with a point of the second file come before a
\* segment with a point of the first file
FilesInOrder(db) ==
    \A c \in DOMAIN db : \A r \in DOMAIN db[c] :
        \A i, j \in 1..Len(db[c][r]) :
            i < j => ~(FromFile(db[c][r][i], 2) /\ FromFile(db[c][r][j], 1))

\* C10: when main reads two files, in every route the segments made from the
\* records of the first file come before those made from the records of the
\* second file, in the database built and in the database returned.
C10_MergeAccumulation ==
    (Len(recfiles) = 2 /\ pc \in Finished) =>
        (FilesInOrder(all_routes) /\ FilesInOrder(clean_routes))

C10_Witness ==
    /\ Len(recfiles) = 2
    /\ pc = "done"
    /\ \E c \in DOMAIN clean_routes : \E r \in DOMAIN clean_routes[c] :
        \E i, j \in 1..Len(clean_routes[c][r]) :
            /\ i < j
            /\ FromFile(clean_routes[c][r][i], 1) /\ ~FromFile(clean_routes[c][r][i], 2)
            /\ FromFile(clean_routes[c][r][j], 2) /\ ~FromFile(clean_routes[c][r][j], 1)

\* C11 ------------------------------------------------------------------
\* C11: the cleaning pass applied to a database it has already cleaned gives
\* the same database: for the database bake has built from the seed and the
\* records when the cleaning starts, and for the database bake returns.
C11_CleanIdempotent ==
    /\ pc = "clean" => Clean(Clean(all_routes)) = Clean(all_routes)
    /\ pc \in {"save", "done"} => Clean(clean_routes) = clean_routes

\* the cleaning has dropped a segment and shortened another, and kept some
C11_Witness ==
    /\ pc = "done"
    /\ saved_routes = Seed1
    /\ clean_routes # EmptyDict
    /\ Len(saved_routes[Some(Conti1)][Some(R1)][1].canvas_points)
         > Len(clean_routes[Some(Conti1)][Some(R1)][1].canvas_points)
    /\ Len(all_routes[Some(Conti1)][Some(R1)])
         > Len(clean_routes[Some(Conti1)][Some(R1)])
    /\ Clean(clean_routes) = clean_routes

\* C12 ------------------------------------------------------------------
\* the positions of ps that hold the first occurrence of a point
FirstIdx(ps) == {i \in 1..Len(ps) : \A j \in 1..(i - 1) : XY(ps[j]) # XY(ps[i])}
\* us is ps restricted to its first occurrences, in the order of ps
IsDistinctFilter(ps, us) ==
    /\ Len(us) = Cardinality(FirstIdx(ps))
    /\ \A k \in 1..Len(us) : \E i \in FirstIdx(ps) :
            /\ Cardinality({j \in FirstIdx(ps) : j < i}) = k - 1
            /\ us[k] = ps[i]
\* the segments of a route with at least 2 distinct points
KeptIdx(segs) == {i \in 1..Len(segs) : Cardinality(FirstIdx(segs[i].canvas_points)) >= 2}
\* res is segs without the segments of fewer than 2 distinct points, each
\* segment left with its distinct points
IsCleanedRoute(segs, res) ==
    /\ Len(res) = Cardinality(KeptIdx(segs))
    /\ \A k \in 1..Len(res) : \E i \in KeptIdx(segs) :
            /\ Cardinality({j \in KeptIdx(segs) : j < i}) = k - 1
            /\ res[k].mode = segs[i].mode
            /\ res[k].color = segs[i].color
            /\ IsDistinctFilter(segs[i].canvas_points, res[k].canvas_points)

\* C12: the cleaning leaves of every segment the subsequence of its points
\* that holds the first occurrence of each distinct point, in the original
\* order, repeats removed also when not adjacent, and removes the segment
\* when fewer than 2 points are left: [(1,1),(2,2),(1,1),(3,3)] becomes
\* [(1,1),(2,2),(3,3)] and the segment [(5,5),(5,5)] is removed.
C12_DistinctFilter ==
    /\ [][pc = "clean" =>
            \A c \in DOMAIN all_routes : \A r \in DOMAIN all_routes[c] :
                IsCleanedRoute(all_routes[c][r], SegsOf(clean_routes', c, r))]_vars
    /\ []((pc = "done" /\ saved_routes = Seed3) =>
            LET segs == SegsOf(clean_routes, Some(Conti2), Some(R1))
            IN /\ Len(segs) >= 1
               /\ XYs(segs[1]) = << <<1, 1>>, <<2, 2>>, <<3, 3>> >>
               /\ \A i \in 1..Len(segs) : \A k \in 1..Len(segs[i].canvas_points) :
                      XY(segs[i].canvas_points[k]) # <<5, 5>>)

C12_Witness ==
    /\ pc = "done"
    /\ saved_routes = Seed3
    /\ Len(saved_routes[Some(Conti2)][Some(R1)]) = 2
    /\ XYs(saved_routes[Some(Conti2)][Some(R1)][1])
         = << <<1, 1>>, <<2, 2>>, <<1, 1>>, <<3, 3>> >>
    /\ XYs(saved_routes[Some(Conti2)][Some(R1)][2]) = << <<5, 5>>, <<5, 5>> >>
    /\ Len(SegsOf(clean_routes, Some(Conti2), Some(R1))) = 1
    /\ XYs(clean_routes[Some(Conti2)][Some(R1)][1]) = << <<1, 1>>, <<2, 2>>, <<3, 3>> >>

\* C13 ------------------------------------------------------------------
\* main's loop is at a path that does not exist
AtMissing == pc = "main" /\ recfile <= Len(recfiles) /\ ~CurFile.exists
SomeMissing == \E k \in 1..Len(recfiles) : ~recfiles[k].exists

\* C13: when a path given to main does not exist the run writes nothing and
\* does not complete, main prints the path it finds missing, and it does not
\* exit while another missing path is still to be printed: every missing
\* path is printed, not only the first.
C13_MissingFiles ==
    /\ [](SomeMissing => (~Written /\ pc # "done"))
    /\ [][AtMissing => out' = "not found"]_vars
    /\ [][(AtMissing /\ \E k \in (recfile + 1)..Len(recfiles) : ~recfiles[k].exists)
            => pc' # "exit"]_vars

\* C14 ------------------------------------------------------------------
\* the record of all_recs a point was made from
RecIndex(p) == CHOOSE n \in 1..Len(all_recs) : all_recs[n].source = p.src
\* the record n was processed while the continent was c: the last continent
\* command before it names c
ProcessedInContinent(n, c) ==
    /\ c # None
    /\ \E m \in 1..(n - 1) :
        /\ IsCommand(all_recs[m], "continent")
        /\ \E k \in DOMAIN KNOWN_AREAS :
               k = c[1] /\ casefold(k) = casefold(all_recs[m].value)
        /\ \A j \in (m + 1)..(n - 1) : ~IsCommand(all_recs[j], "continent")
\* the record n was processed while the route was r: the last of the commands
\* continent, route and endroute before it is a route command that names r
ProcessedInRoute(n, r) ==
    /\ r # None
    /\ \E m \in 1..(n - 1) :
        /\ IsCommand(all_recs[m], "route")
        /\ all_recs[m].value = r[1]
        /\ \A j \in (m + 1)..(n - 1) :
               /\ ~IsCommand(all_recs[j], "continent")
               /\ ~IsCommand(all_recs[j], "route")
               /\ ~IsCommand(all_recs[j], "endroute")
Attributed(seg, c, r) ==
    \A i \in 1..Len(seg.canvas_points) :
        /\ \E n \in 1..Len(all_recs) :
               all_recs[n].type = "PosRecord" /\ all_recs[n].source = seg.canvas_points[i].src
        /\ ProcessedInContinent(RecIndex(seg.canvas_points[i]), c)
        /\ ProcessedInRoute(RecIndex(seg.canvas_points[i]), r)
\* bake is at a route command while a route is open
AtRouteWhileOpen ==
    /\ pc = "bake"
    /\ ~feed
    /\ ridx <= Len(all_recs)
    /\ IsCommand(all_recs[ridx], "route")
    /\ route # None

\* C14: in a run of main every point of a segment stored under continent C
\* and route R, and of the open segment while continent is C and route is R,
\* comes from a position record processed while the continent was C and the
\* route was R; a route command met while route R is open appends the open
\* segment under R, and under the new name nothing is appended.
C14_PointAttribution ==
    /\ [](pc \in {"bake", "clean", "save", "done"} =>
            /\ Attributed(segment, continent, route)
            /\ \A c \in DOMAIN all_routes : \A r \in DOMAIN all_routes[c] :
                   \A i \in 1..Len(all_routes[c][r]) : Attributed(all_routes[c][r][i], c, r)
            /\ \A c \in DOMAIN clean_routes : \A r \in DOMAIN clean_routes[c] :
                   \A i \in 1..Len(clean_routes[c][r]) : Attributed(clean_routes[c][r][i], c, r))
    /\ [][AtRouteWhileOpen =>
            /\ SegsOf(all_routes', continent, route)
                 = Append(SegsOf(all_routes, continent, route), segment)
            /\ Some(all_recs[ridx].value) # route =>
                 SegsOf(all_routes', continent, Some(all_recs[ridx].value))
                   = SegsOf(all_routes, continent, Some(all_recs[ridx].value))]_vars

\* a route was opened under a new name while R1 was open with points: the
\* points of the first file are under R1, those after the command under the
\* new name
C14_Witness ==
    /\ pc = "done"
    /\ Len(recfiles) = 2
    /\ recfiles[2].lines = <<LRouteEmpty, PosA, PosC, LBreak>>
    /\ Len(SegsOf(clean_routes, Some(Conti1), Some(R1))) = 1
    /\ FromFile(clean_routes[Some(Conti1)][Some(R1)][1], 1)
    /\ ~FromFile(clean_routes[Some(Conti1)][Some(R1)][1], 2)
    /\ Len(SegsOf(clean_routes, Some(Conti1), Some(Lit("")))) = 1
    /\ FromFile(clean_routes[Some(Conti1)][Some(Lit(""))][1], 2)

\* C15 ------------------------------------------------------------------
\* bake is at a command of the given name
AtCommand(name) ==
    /\ pc = "bake"
    /\ ~feed
    /\ ridx <= Len(all_recs)
    /\ IsCommand(all_recs[ridx], name)
\* the step appends the open segment, and nothing else, under the current
\* continent and route
ClosesOpenSegment ==
    /\ SegsOf(all_routes', continent, route)
         = Append(SegsOf(all_routes, continent, route), segment)
    /\ \A c \in DOMAIN all_routes' : \A r \in DOMAIN all_routes'[c] :
           <<c, r>> # <<continent, route>> =>
               SegsOf(all_routes', c, r) = SegsOf(all_routes, c, r)
    /\ \A c \in DOMAIN all_routes : \A r \in DOMAIN all_routes[c] :
           c \in DOMAIN all_routes' /\ r \in DOMAIN all_routes'[c]
\* the step closes the open segment and opens an empty one of the mode, with
\* the color of the closed one
TogglesTo(mode) ==
    /\ ClosesOpenSegment
    /\ segment' = [mode |-> mode, color |-> segment.color, canvas_points |-> <<>>]
    /\ UNCHANGED <<bounds, continent, route>>

\* C15: a solid command while the open segment is SOLID and a dashed command
\* while it is DASHED change nothing of the interpreter state and the
\* database; a solid while DASHED and a dashed while SOLID append exactly the
\* open segment under the current route and open a new empty segment of the
\* mode asked for, with the color of the segment closed.
C15_SolidDashedToggle ==
    /\ [][((AtCommand("solid") /\ segment.mode = SOLID)
            \/ (AtCommand("dashed") /\ segment.mode = DASHED))
           => UNCHANGED <<pc, exc, bounds, continent, route, segment, all_routes,
                          clean_routes, backup, saved>>]_vars
    /\ [][(AtCommand("solid") /\ segment.mode = DASHED) => TogglesTo(SOLID)]_vars
    /\ [][(AtCommand("dashed") /\ segment.mode = SOLID) => TogglesTo(DASHED)]_vars

\* a dashed command has closed a red SOLID segment with points and opened an
\* empty red DASHED one
C15_Witness ==
    /\ pc = "bake"
    /\ ~feed
    /\ ridx > 1
    /\ IsCommand(all_recs[ridx - 1], "dashed")
    /\ segment = [mode |-> DASHED, color |-> Some("#ff0000"), canvas_points |-> <<>>]
    /\ SegsOf(all_routes, continent, route) # <<>>
    /\ Last(SegsOf(all_routes, continent, route)).mode = SOLID
    /\ Last(SegsOf(all_routes, continent, route)).color = Some("#ff0000")
    /\ Len(Last(SegsOf(all_routes, continent, route)).canvas_points) = 2

\* C16 ------------------------------------------------------------------
\* the record n comes after an endroute command with no route command since
RouteEnded(n) ==
    \E m \in 1..(n - 1) :
        /\ IsCommand(all_recs[m], "endroute")
        /\ \A j \in (m + 1)..(n - 1) : ~IsCommand(all_recs[j], "route")
\* no two points of the segment come from the two sides of a break or an
\* endroute command
Unbroken(seg) ==
    \A i, k \in 1..Len(seg.canvas_points) :
        \A j \in 1..Len(all_recs) :
            (RecIndex(seg.canvas_points[i]) < j /\ j < RecIndex(seg.canvas_points[k]))
                => (~IsCommand(all_recs[j], "break") /\ ~IsCommand(all_recs[j], "endroute"))
FreshSolid == [mode |-> SOLID, color |-> None, canvas_points |-> <<>>]

\* C16: break appends the open segment under the current route, keeps route
\* and opens an empty SOLID segment without color whatever the mode and
\* color were, so that the positions after it go to a new segment; endroute
\* does the same and unsets route, and every position record after it is
\* skipped with a warning until the next route command.
C16_BreakVersusEndroute ==
    /\ [][AtCommand("break") =>
            /\ ClosesOpenSegment
            /\ segment' = FreshSolid
            /\ UNCHANGED <<bounds, continent, route>>]_vars
    /\ [][AtCommand("endroute") =>
            /\ ClosesOpenSegment
            /\ segment' = FreshSolid
            /\ route' = None
            /\ UNCHANGED <<bounds, continent>>]_vars
    /\ [][(/\ pc = "bake"
            /\ ~feed
            /\ ridx <= Len(all_recs)
            /\ all_recs[ridx].type = "PosRecord"
            /\ RouteEnded(ridx))
           => /\ out' \in {"WARNING: PosRecord found but route not set",
                            "WARNING: PosRecord found but continent not set"}
              /\ pc' = "bake"
              /\ UNCHANGED <<bounds, continent, route, segment, all_routes>>]_vars
    /\ [](pc \in {"bake", "clean", "save", "done"} =>
            /\ Unbroken(segment)
            /\ \A c \in DOMAIN all_routes : \A r \in DOMAIN all_routes[c] :
                   \A i \in 1..Len(all_routes[c][r]) : Unbroken(all_routes[c][r][i]))

\* after a break the positions went to a second segment of the same route,
\* and the position after the endroute is in no segment
C16_Witness ==
    /\ pc = "done"
    /\ Len(recfiles) = 2
    /\ recfiles[2].lines = <<LBreak, PosA, PosC, LEndroute, PosA>>
    /\ Len(SegsOf(clean_routes, Some(Conti1), Some(R1))) = 2
    /\ FromFile(clean_routes[Some(Conti1)][Some(R1)][1], 1)
    /\ FromFile(clean_routes[Some(Conti1)][Some(R1)][2], 2)
    /\ \A i \in 1..2 : \A k \in 1..Len(clean_routes[Some(Conti1)][Some(R1)][i].canvas_points) :
           clean_routes[Some(Conti1)][Some(R1)][i].canvas_points[k].src # <<2, 5>>

\* C17 ------------------------------------------------------------------
\* the canonical names the value of a continent command resolves to
Resolved(value) == {k \in DOMAIN KNOWN_AREAS : casefold(k) = casefold(value)}
\* the position record n is followed by a continent command with no command
\* in between that closes a segment
LeftOpenAtContinent(n) ==
    /\ all_recs[n].type = "PosRecord"
    /\ \E m \in (n + 1)..Len(all_recs) :
        /\ IsCommand(all_recs[m], "continent")
        /\ \A j \in (n + 1)..(m - 1) :
               \A name \in {"route", "endroute", "break", "solid", "dashed", "continent"} :
                   ~IsCommand(all_recs[j], name)
HasPointOf(db, n) ==
    \E c \in DOMAIN db : \E r \in DOMAIN db[c] : \E i \in 1..Len(db[c][r]) :
        \E k \in 1..Len(db[c][r][i].canvas_points) :
            db[c][r][i].canvas_points[k].src = all_recs[n].source

\* C17: a continent command with a name that resolves appends nothing to the
\* database, also when a route is open with points in the open segment; it
\* sets continent to the canonical name, unsets route and opens an empty
\* SOLID segment without color; the points of the route left open at that
\* moment are in no database, built or returned.
C17_ContinentClosesNothing ==
    /\ [][(AtCommand("continent") /\ Resolved(all_recs[ridx].value) # {}) =>
            /\ all_routes' = all_routes
            /\ continent' # None
            /\ continent'[1] \in Resolved(all_recs[ridx].value)
            /\ bounds' = Some(KNOWN_AREAS[continent'[1]])
            /\ route' = None
            /\ segment' = FreshSolid
            /\ pc' = "bake"]_vars
    /\ [](pc \in {"bake", "clean", "save", "done"} =>
            \A n \in 1..Len(all_recs) :
                LeftOpenAtContinent(n) =>
                    (~HasPointOf(all_routes, n) /\ ~HasPointOf(clean_routes, n)))

\* a continent command met while route R1 was open with the 2 points of the
\* first file: the database returned has the points of the second file only
C17_Witness ==
    /\ pc = "done"
    /\ Len(recfiles) = 2
    /\ recfiles[1].lines = Header \o <<PosA, PosB>>
    /\ recfiles[2].lines = Header \o <<PosA, PosC>>
    /\ LeftOpenAtContinent(3)
    /\ LeftOpenAtContinent(4)
    /\ Len(SegsOf(clean_routes, Some(Conti1), Some(R1))) = 1
    /\ FromFile(clean_routes[Some(Conti1)][Some(R1)][1], 2)
    /\ ~FromFile(clean_routes[Some(Conti1)][Some(R1)][1], 1)

\* C18 ------------------------------------------------------------------
\* no continent key and no route key of db is unset
NoUnsetKeys(db) ==
    /\ None \notin DOMAIN db
    /\ \A c \in DOMAIN db : None \notin DOMAIN db[c]
\* every segment of db stored under an unset key has no point
UnsetKeysEmpty(db) ==
    \A c \in DOMAIN db : \A r \in DOMAIN db[c] :
        (c = None \/ r = None) =>
            \A i \in 1..Len(db[c][r]) : db[c][r][i].canvas_points = <<>>

\* C18: whatever the records, solid, dashed, break and endroute met with no
\* continent or no route included, and whatever the seed, which has no unset
\* key, the database returned and saved has no unset continent key and no
\* unset route key: while continent or route is unset the open segment has
\* no point, so a segment closed under an unset key is empty and the
\* cleaning removes it.
C18_NoUnsetKeys ==
    /\ NoUnsetKeys(saved_routes)
    /\ (pc = "bake" /\ (continent = None \/ route = None)) => segment.canvas_points = <<>>
    /\ UnsetKeysEmpty(all_routes)
    /\ NoUnsetKeys(clean_routes)
    /\ saved # None => NoUnsetKeys(saved[1])

\* segments were closed with no continent and with no route, and the
\* database returned is not empty
C18_Witness ==
    /\ pc = "done"
    /\ saved # None
    /\ None \in DOMAIN all_routes
    /\ \E c \in DOMAIN all_routes : c # None /\ None \in DOMAIN all_routes[c]
    /\ clean_routes # EmptyDict
    /\ NoUnsetKeys(clean_routes)

\* C19 ------------------------------------------------------------------
\* seg has no point of the seed
IsNewSegment(seg) ==
    \A k \in 1..Len(seg.canvas_points) : ~IsSeedPoint(seg.canvas_points[k])

\* C19: bake with a seed S is bake without a seed with the cleaned segments
\* of S put first: whatever S holds, the interpreter starts on the records
\* with continent and route unset, as it does with an empty seed, and the
\* database returned has for every continent and route the cleaned segments
\* of S followed by segments made from the records only.
C19_SeedingIsMerging ==
    /\ (pc = "bake" /\ ridx = 1) =>
           (continent = None /\ route = None /\ segment = Segment(SOLID, None))
    /\ pc \in {"save", "done"} =>
           /\ \A c \in DOMAIN saved_routes : \A r \in DOMAIN saved_routes[c] :
                 LET old == NewSegs(saved_routes[c][r])
                     now == SegsOf(clean_routes, c, r)
                 IN /\ Len(now) >= Len(old)
                    /\ SubSeq(now, 1, Len(old)) = old
                    /\ \A i \in (Len(old) + 1)..Len(now) : IsNewSegment(now[i])
           /\ \A c \in DOMAIN clean_routes : \A r \in DOMAIN clean_routes[c] :
                 SegsOf(saved_routes, c, r) = <<>> =>
                     \A i \in 1..Len(clean_routes[c][r]) : IsNewSegment(clean_routes[c][r][i])

\* C20 ------------------------------------------------------------------
\* C20: for a position record bake accepts (its tile is in the box of the
\* continent) with local_pos.x and local_pos.y in 0..255, the canvas point
\* appended has 0 <= x < width*256 and 0 <= y < height*256.
C20_OnCanvas ==
    [][(/\ AtAcceptedPos
        /\ all_recs[ridx].local_pos[1] \in 0..255
        /\ all_recs[ridx].local_pos[2] \in 0..255)
       => LET b == KNOWN_AREAS[continent[1]]
              p == Last(segment'.canvas_points)
          IN /\ 0 <= p.x /\ p.x < b.width * 256
             /\ 0 <= p.y /\ p.y < b.height * 256]_vars

====
